---- MODULE Spec2Model ----
(***************************************************************************)
(* Model of static/app.js: the page helpers (autofocus, data-confirm click *)
(* listener, autoHide of #successBox) and the CRMaps widgets               *)
(* (initPickerMap, initPublicMap, escapeHtml).                             *)
(*                                                                         *)
(* Text is a sequence of one-character strings.  A coordinate is an        *)
(* integer x standing for the double nearest to x * 10^-7, so that         *)
(* toFixed(6) has a digit to round away.                                   *)
(***************************************************************************)
EXTENDS Integers, Sequences, FiniteSets, TLC

VARIABLES
  \* ---- page helpers (first IIFE) ----
  pagePc,        \* "rendered" before the script ran, "loaded" after
  confirmAttr,   \* DOM: node -> its data-confirm attribute
  firstInput,    \* what querySelector("form input, ...") finds
  focused,       \* TRUE once firstInput.focus() succeeded
  listener,      \* TRUE once the document click listener is registered
  ev,            \* the last click event dispatched on the document; handled:
                 \* the listener ran on it
  box,           \* #successBox: [present, hidden]
  timer,         \* the setTimeout of autoHide: [pending, due]
  clock,         \* milliseconds since the page was rendered
  hideRuns,      \* history: runs of the timer callback
  scriptHides,   \* history: visible -> hidden transitions made by the script
  loadBox,       \* history: the box as autoHide saw it
  loadAt,        \* history: clock value when autoHide ran
  \* ---- map widgets (second IIFE) ----
  mapEl,         \* document.getElementById(mapId) is an element
  hasL,          \* window.L is defined
  latInput,      \* [exists, value]
  lngInput,      \* [exists, value]
  pc,            \* "ready", "picker", "public", "noop"
  opts,          \* the argument of the initializer that was called
  map,           \* the L.map instance: [created, view, tileLayers, handlers]
  marker,        \* picker: [count, lat, lng, draggable, handlers]
  dragging,      \* picker: the user is dragging the marker
  placed,        \* public: sequence of [lat, lng, popup] markers added
  bounds,        \* public: the local array bounds
  polyline,      \* public: number of polylines added to the map
  pathFault,     \* public: the step of the path block that threw
  thrown,        \* an exception escaped the initializer
  \* ---- escapeHtml applied to a chosen input ----
  escPc,         \* "input", "escaped", "decoded"
  escIn,
  escOut,
  escDec

pageVars == <<pagePc, confirmAttr, firstInput, focused, listener, ev, box,
              timer, clock, hideRuns, scriptHides, loadBox, loadAt>>
mapVars  == <<mapEl, hasL, latInput, lngInput, pc, opts, map, marker,
              dragging, placed, bounds, polyline, pathFault, thrown>>
escVars  == <<escPc, escIn, escOut, escDec>>
vars     == <<pageVars, mapVars, escVars>>

(***************************************************************************)
(* Bounds                                                                  *)
(***************************************************************************)
MaxLen     == 4       \* longest escapeHtml input
MaxMarkers == 3       \* longest markers array
MaxPath    == 2       \* longest path array
TickMs     == 2000    \* granularity of the clock
MaxClock   == 12000   \* the clock stops here

(***************************************************************************)
(* Text helpers                                                            *)
(***************************************************************************)
RECURSIVE Flatten(_)
Flatten(ss) == IF ss = <<>> THEN <<>> ELSE Head(ss) \o Flatten(Tail(ss))

RECURSIVE SeqsUpTo(_, _)
SeqsUpTo(S, n) ==
  IF n = 0 THEN {<<>>}
  ELSE LET shorter == SeqsUpTo(S, n - 1)
       IN  shorter \cup {Append(s, c) : s \in {t \in shorter : Len(t) = n - 1}, c \in S}

(***************************************************************************)
(* escapeHtml                                                              *)
(***************************************************************************)
AMP  == <<"&", "a", "m", "p", ";">>
LT   == <<"&", "l", "t", ";">>
GT   == <<"&", "g", "t", ";">>
QUOT == <<"&", "q", "u", "o", "t", ";">>
APOS == <<"&", "#", "0", "3", "9", ";">>

\* a plausible slip: the apostrophe is missing from the character class
EscapeCharNoApos(c) ==
  CASE c = "&"  -> AMP
    [] c = "<"  -> LT
    [] c = ">"  -> GT
    [] c = "\"" -> QUOT
    [] OTHER    -> <<c>>

\* the replacer of escapeHtml: the entity of a matched character; a character
\* the class [&<>"'] does not match is copied
EscapeChar(c) ==
  CASE c = "&"  -> AMP
    [] c = "<"  -> LT
    [] c = ">"  -> GT
    [] c = "\"" -> QUOT
    [] c = "'"  -> APOS
    [] OTHER    -> <<c>>

\* String(str).replace(/[&<>"']/g, ...) on a string
escapeHtml(str) == Flatten([i \in 1..Len(str) |-> EscapeChar(str[i])])

(***************************************************************************)
(* Page helpers: the first IIFE                                            *)
(***************************************************************************)
AutoHideDelay  == 8000
DefaultConfirm == "¿Seguro?"

\* the document: node 1 is the root, 2 is a child of 1, 3 is a child of 2
Nodes     == 1..3
Parent(n) == n - 1          \* 0: no parent element
NoAttr    == [has |-> FALSE, text |-> ""]
AttrValues ==
  {NoAttr, [has |-> TRUE, text |-> ""], [has |-> TRUE, text |-> "¿Eliminar?"]}

BoxValues ==
  {[present |-> FALSE, hidden |-> FALSE],
   [present |-> TRUE,  hidden |-> FALSE],
   [present |-> TRUE,  hidden |-> TRUE]}

NoEvent == [target |-> 0, handled |-> FALSE, dialogShown |-> FALSE, dialogMsg |-> "", answer |-> "none",
            defaultPrevented |-> FALSE, propagationStopped |-> FALSE]

\* a plausible slip: only the clicked element is inspected, not its ancestors
matchesOnly(attrs, n) == IF attrs[n].has THEN n ELSE 0

\* e.target.closest("[data-confirm]"): the element itself or its nearest
\* ancestor carrying the attribute; 0 stands for null
RECURSIVE closest(_, _)
closest(attrs, n) ==
  IF n = 0 THEN 0
  ELSE IF attrs[n].has THEN n
  ELSE closest(attrs, Parent(n))

\* the click listener run on a click on target t, where window.confirm
\* would answer ok
onClick(attrs, t, ok) ==
  LET el == closest(attrs, t) IN
  IF el = 0
  THEN [NoEvent EXCEPT !.target = t, !.handled = TRUE]
  ELSE LET msg == IF attrs[el].text # "" THEN attrs[el].text ELSE DefaultConfirm
       IN  [target |-> t, handled |-> TRUE, dialogShown |-> TRUE, dialogMsg |-> msg,
            answer |-> IF ok THEN "yes" ELSE "no",
            defaultPrevented |-> ~ok, propagationStopped |-> ~ok]

\* document.getElementById(id) for the ids the page helpers use
getBox(id) == IF id = "successBox" THEN box ELSE [present |-> FALSE, hidden |-> FALSE]

\* a plausible slip: the early return on an already hidden box is missing
autoHideNoHiddenCheck(id, ms) ==
  LET b == getBox(id) IN
  /\ timer' = IF ~b.present THEN timer
              ELSE [pending |-> TRUE, due |-> clock + ms]
  /\ loadBox' = b
  /\ loadAt' = clock

\* autoHide(id, ms): schedules the one-shot timer unless the box is missing
\* or already hidden
autoHide(id, ms) ==
  LET b == getBox(id) IN
  /\ timer' = IF ~b.present THEN timer
              ELSE IF b.hidden THEN timer
              ELSE [pending |-> TRUE, due |-> clock + ms]
  /\ loadBox' = b
  /\ loadAt' = clock

\* the try block around firstInput.focus()
Autofocus ==
  focused' = (firstInput = "ok")

\* the body of the first IIFE, run once when the script loads
LoadScript ==
  /\ pagePc = "rendered"
  /\ pagePc' = "loaded"
  /\ Autofocus
  /\ listener' = TRUE
  /\ autoHide("successBox", AutoHideDelay)
  /\ UNCHANGED <<confirmAttr, firstInput, ev, box, clock, hideRuns, scriptHides>>
  /\ UNCHANGED <<mapVars, escVars>>

\* a click on node t; the listener runs if it is registered
Click(t, ok) ==
  /\ ev' = IF listener THEN onClick(confirmAttr, t, ok) ELSE [NoEvent EXCEPT !.target = t]
  /\ UNCHANGED <<pagePc, confirmAttr, firstInput, focused, listener, box, timer,
                 clock, hideRuns, scriptHides, loadBox, loadAt>>
  /\ UNCHANGED <<mapVars, escVars>>

\* time passes
Tick ==
  /\ clock + TickMs <= MaxClock
  /\ clock' = clock + TickMs
  /\ UNCHANGED <<pagePc, confirmAttr, firstInput, focused, listener, ev, box, timer,
                 hideRuns, scriptHides, loadBox, loadAt>>
  /\ UNCHANGED <<mapVars, escVars>>

\* the callback given to setTimeout: box.classList.add("hidden")
TimerFire ==
  /\ timer.pending
  /\ clock >= timer.due
  /\ timer' = [timer EXCEPT !.pending = FALSE]
  /\ box' = [box EXCEPT !.hidden = TRUE]
  /\ hideRuns' = hideRuns + 1
  /\ scriptHides' = IF box.hidden THEN scriptHides ELSE scriptHides + 1
  /\ UNCHANGED <<pagePc, confirmAttr, firstInput, focused, listener, ev, clock,
                 loadBox, loadAt>>
  /\ UNCHANGED <<mapVars, escVars>>

\* the page (server markup, another script) shows the banner after load
ShowBanner ==
  /\ pagePc = "loaded"
  /\ box # [present |-> TRUE, hidden |-> FALSE]
  /\ box' = [present |-> TRUE, hidden |-> FALSE]
  /\ UNCHANGED <<pagePc, confirmAttr, firstInput, focused, listener, ev, timer, clock,
                 hideRuns, scriptHides, loadBox, loadAt>>
  /\ UNCHANGED <<mapVars, escVars>>

PageInit ==
  /\ pagePc = "rendered"
  /\ confirmAttr \in [Nodes -> AttrValues]
  /\ firstInput \in {"none", "ok", "throws"}
  /\ focused = FALSE
  /\ listener = FALSE
  /\ ev = NoEvent
  /\ box \in BoxValues
  /\ timer = [pending |-> FALSE, due |-> 0]
  /\ clock = 0
  /\ hideRuns = 0
  /\ scriptHides = 0
  /\ loadBox = [present |-> FALSE, hidden |-> FALSE]
  /\ loadAt = 0

\* the page helpers are not part of the run
PageIdle ==
  /\ pagePc = "rendered"
  /\ confirmAttr = [n \in Nodes |-> NoAttr]
  /\ firstInput = "none"
  /\ focused = FALSE
  /\ listener = FALSE
  /\ ev = NoEvent
  /\ box = [present |-> FALSE, hidden |-> FALSE]
  /\ timer = [pending |-> FALSE, due |-> 0]
  /\ clock = 0
  /\ hideRuns = 0
  /\ scriptHides = 0
  /\ loadBox = [present |-> FALSE, hidden |-> FALSE]
  /\ loadAt = 0

PageNext ==
  \/ LoadScript
  \/ \E t \in Nodes, ok \in BOOLEAN : Click(t, ok)
  \/ Tick
  \/ TimerFire
  \/ ShowBanner


(***************************************************************************)
(* Values of the map widgets                                               *)
(***************************************************************************)
Undefined == [t |-> "undefined", n |-> 0]
Num(n)    == [t |-> "number", n |-> n]

\* the destructuring defaults of both initializers
DefaultStartLat == -18312000     \* -1.8312
DefaultStartLng == -781834000    \* -78.1834
DefaultZoom     == 6
FitPadding      == 30
CloseZoom       == 14

\* a destructuring default: taken when the property is undefined
withDefault(v, d) == IF v.t = "undefined" THEN d ELSE v.n

Abs(x) == IF x < 0 THEN -x ELSE x

RECURSIVE Pow10(_)
Pow10(k) == IF k = 0 THEN 1 ELSE 10 * Pow10(k - 1)

DigitChar(d) == <<"0", "1", "2", "3", "4", "5", "6", "7", "8", "9">>[d + 1]

\* decimal digits of a natural number, no leading zeros
RECURSIVE Digits(_)
Digits(n) == IF n < 10 THEN <<DigitChar(n)>> ELSE Append(Digits(n \div 10), DigitChar(n % 10))

\* the last k decimal digits of n, zero padded
Padded(n, k) == [i \in 1..k |-> DigitChar((n \div Pow10(k - i)) % 10)]

\* a plausible slip: the digits beyond the last one kept are cut off
toFixedTruncating(x, digits) ==
  LET n == Abs(x) \div Pow10(7 - digits)
  IN  (IF x < 0 THEN <<"-">> ELSE <<>>)
      \o Digits(n \div Pow10(digits)) \o <<".">> \o Padded(n % Pow10(digits), digits)

\* The number the code holds for the coordinate a > 0 is the double d
\* nearest to a * 10^-7: d = m / 2^e with 2^52 <= m < 2^53 and m the integer
\* nearest to a * 2^e / 10^7.  As 10^7 = 2^7 * 78125, e is 59 + k for the k
\* with 78125 <= a * 2^k < 156250.
Pow2(k) ==
  <<1, 2, 4, 8, 16, 32, 64, 128, 256, 512, 1024, 2048, 4096, 8192, 16384,
    32768, 65536, 131072>>[k + 1]

\* the least k with a * 2^k >= 78125, for 0 < a < 78125
Doublings(a) ==
  CHOOSE k \in 0..17 :
    /\ Pow2(k) > 78124 \div a
    /\ k = 0 \/ Pow2(k - 1) <= 78124 \div a

\* the greatest j with 78125 * 2^j <= a, for 78125 <= a < 2^31
Halvings(a) ==
  CHOOSE j \in 0..14 :
    /\ 78125 * Pow2(j) <= a
    /\ j = 14 \/ 78125 * Pow2(j) > a \div 2

BinaryExponent(a) ==
  IF a < 78125 THEN 59 + Doublings(a) ELSE 59 - Halvings(a)

\* a * 2^e modulo 10^7, seven doublings at a time
RECURSIVE TimesPow2Mod(_, _)
TimesPow2Mod(a, e) ==
  IF e < 7 THEN (Pow2(e) * (a % 10000000)) % 10000000
  ELSE TimesPow2Mod((128 * (a % 10000000)) % 10000000, e - 7)

\* where the double nearest to a * 10^-7 lies: 0 when it is a * 10^-7
\* exactly, -1 when it is below, 1 when it is above (the remainder of
\* a * 2^e by 10^7 says which way m was rounded)
DoubleError(a) ==
  IF a = 0 THEN 0
  ELSE LET r == TimesPow2Mod(a, BinaryExponent(a))
       IN  IF r = 0 THEN 0 ELSE IF r < 5000000 THEN -1 ELSE 1

\* Number.prototype.toFixed(digits) of the double nearest to x * 10^-7,
\* digits <= 7: the sign of x, then the integer n for which n / 10^digits is
\* nearest to the absolute value of the double (the larger n when two are
\* equally near), written with digits digits after the point.  For a decimal
\* tie the double decides: below the tie n is rounded down, otherwise up.
toFixed(x, digits) ==
  LET unit  == Pow10(7 - digits)
      rem   == Abs(x) % unit
      floor == Abs(x) \div unit
      n     == IF 2 * rem < unit THEN floor
               ELSE IF 2 * rem = unit /\ DoubleError(Abs(x)) < 0 THEN floor
               ELSE floor + 1
  IN  (IF x < 0 THEN <<"-">> ELSE <<>>)
      \o Digits(n \div Pow10(digits)) \o <<".">> \o Padded(n % Pow10(digits), digits)

\* L.map(id).setView(center, zoom), map.panTo(center), map.fitBounds(pts, padding):
\* the view is the last command given, panTo keeps the zoom
setView(center, zoom) ==
  [op |-> "setView", center |-> center, zoom |-> zoom, pts |-> <<>>, padding |-> 0]
panTo(view, center) ==
  [view EXCEPT !.op = "panTo", !.center = center]
fitBounds(pts, padding) ==
  [op |-> "fitBounds", center |-> <<0, 0>>, zoom |-> 0, pts |-> pts, padding |-> padding]

NoView   == [op |-> "none", center |-> <<0, 0>>, zoom |-> 0, pts |-> <<>>, padding |-> 0]
NoMap    == [created |-> 0, view |-> NoView, tileLayers |-> 0, handlers |-> {}]
NoMarker == [count |-> 0, lat |-> 0, lng |-> 0, draggable |-> FALSE, handlers |-> {}]
NoOpts   == [kind |-> "none"]

InitialInputValue == <<"0">>

\* coordinates a click or a drag can produce, in 10^-7 degrees
\* among them decimal ties whose double is below (5, -5, 10000015), above
\* (15) and exact (78125, -78125)
LatValues == {DefaultStartLat, -10000000, 12345678, 78125, -4, 5, 10000015}
LngValues == {DefaultStartLng, -780000000, -12345672, -78125, 9999999, 15, -5}

\* start options: all defaulted, or all given
StartOptions ==
  {[startLat |-> Undefined, startLng |-> Undefined, zoom |-> Undefined],
   [startLat |-> Num(-10000000), startLng |-> Num(-780000000), zoom |-> Num(10)]}

\* a plausible slip: the guard forgets the mapping library
guardContainerOnly(el, lib) == ~el

\* if (!mapEl || !window.L) return;
guard(el, lib) == ~el \/ ~lib

\* L.map(mapId) throws when L is not defined or the container is missing
mapThrows == ~hasL \/ ~mapEl

\* setLatLng(lat, lng) of initPickerMap, acting on map mp and marker mk
setLatLng(mp, mk, lat, lng) ==
  /\ latInput' = IF latInput.exists THEN [latInput EXCEPT !.value = toFixed(lat, 6)]
                 ELSE latInput
  /\ lngInput' = IF lngInput.exists THEN [lngInput EXCEPT !.value = toFixed(lng, 6)]
                 ELSE lngInput
  /\ marker' = [mk EXCEPT !.lat = lat, !.lng = lng]
  /\ map' = [mp EXCEPT !.view = panTo(mp.view, <<lat, lng>>)]

\* initPickerMap(opts)
InitPickerMap(o) ==
  /\ pc = "ready"
  /\ opts' = [kind |-> "picker", start |-> o]
  /\ LET startLat == withDefault(o.startLat, DefaultStartLat)
         startLng == withDefault(o.startLng, DefaultStartLng)
         zoom     == withDefault(o.zoom, DefaultZoom)
     IN  IF guard(mapEl, hasL)
         THEN /\ pc' = "noop"
              /\ UNCHANGED <<latInput, lngInput, map, marker, thrown>>
         ELSE IF mapThrows
         THEN /\ pc' = "threw"
              /\ thrown' = TRUE
              /\ UNCHANGED <<latInput, lngInput, map, marker>>
         ELSE /\ pc' = "picker"
              /\ setLatLng([created |-> 1, view |-> setView(<<startLat, startLng>>, zoom),
                            tileLayers |-> 1, handlers |-> {"click"}],
                           [count |-> 1, lat |-> startLat, lng |-> startLng,
                            draggable |-> TRUE, handlers |-> {"dragend"}],
                           startLat, startLng)
              /\ UNCHANGED thrown
  /\ UNCHANGED <<mapEl, hasL, dragging, placed, bounds, polyline, pathFault>>
  /\ UNCHANGED <<pageVars, escVars>>

\* map.on("click", ...): a click on the map at (lat, lng)
MapClick(lat, lng) ==
  /\ pc = "picker"
  /\ "click" \in map.handlers
  /\ ~dragging
  /\ setLatLng(map, marker, lat, lng)
  /\ UNCHANGED <<mapEl, hasL, pc, opts, dragging, placed, bounds, polyline, pathFault, thrown>>
  /\ UNCHANGED <<pageVars, escVars>>

\* the user drags the marker: the library moves it, no handler of this code runs
DragMarker(lat, lng) ==
  /\ pc = "picker"
  /\ marker.draggable
  /\ <<lat, lng>> # <<marker.lat, marker.lng>>
  /\ marker' = [marker EXCEPT !.lat = lat, !.lng = lng]
  /\ dragging' = TRUE
  /\ UNCHANGED <<mapEl, hasL, latInput, lngInput, pc, opts, map, placed, bounds,
                 polyline, pathFault, thrown>>
  /\ UNCHANGED <<pageVars, escVars>>

\* marker.on("dragend", ...): the user drops the marker
DragEnd ==
  /\ pc = "picker"
  /\ dragging
  /\ "dragend" \in marker.handlers
  /\ dragging' = FALSE
  /\ setLatLng(map, marker, marker.lat, marker.lng)
  /\ UNCHANGED <<mapEl, hasL, pc, opts, placed, bounds, polyline, pathFault, thrown>>
  /\ UNCHANGED <<pageVars, escVars>>


(***************************************************************************)
(* initPublicMap                                                           *)
(***************************************************************************)
NoText  == [t |-> "undefined", s |-> <<>>]
Text(s) == [t |-> "string", s |-> s]
Str(n)  == [t |-> "string", n |-> n]     \* a coordinate given as a string

\* JavaScript truthiness of a text property: undefined and "" are falsy
Truthy(x) == x.t = "string" /\ x.s # <<>>

\* x || d
orElse(x, d) == IF Truthy(x) THEN x.s ELSE d

Negocio == <<"N", "e", "g", "o", "c", "i", "o">>

HexDigit(h) ==
  <<"0", "1", "2", "3", "4", "5", "6", "7", "8", "9", "A", "B", "C", "D", "E", "F">>[h + 1]

\* %XX for the byte b
PercentByte(b) == <<"%", HexDigit(b \div 16), HexDigit(b % 16)>>

\* the characters encodeURIComponent keeps: A-Z a-z 0-9 - _ . ! ~ * ' ( )
Unreserved ==
  {"A", "B", "C", "D", "E", "F", "G", "H", "I", "J", "K", "L", "M",
   "N", "O", "P", "Q", "R", "S", "T", "U", "V", "W", "X", "Y", "Z",
   "a", "b", "c", "d", "e", "f", "g", "h", "i", "j", "k", "l", "m",
   "n", "o", "p", "q", "r", "s", "t", "u", "v", "w", "x", "y", "z",
   "0", "1", "2", "3", "4", "5", "6", "7", "8", "9",
   "-", "_", ".", "!", "~", "*", "'", "(", ")"}

\* the UTF-8 bytes of the other characters: the rest of ASCII (but for the
\* grave accent, byte 96, which a string of this language cannot hold), and
\* the accented letters and marks of the Spanish texts of this application; a
\* character outside this table has no value here
Utf8(c) ==
  CASE c = "\t" -> <<9>>   [] c = "\n" -> <<10>>  [] c = "\r" -> <<13>>
    [] c = " "  -> <<32>>  [] c = "\"" -> <<34>>  [] c = "#"  -> <<35>>
    [] c = "$"  -> <<36>>  [] c = "%"  -> <<37>>  [] c = "&"  -> <<38>>
    [] c = "+"  -> <<43>>  [] c = ","  -> <<44>>  [] c = "/"  -> <<47>>
    [] c = ":"  -> <<58>>  [] c = ";"  -> <<59>>  [] c = "<"  -> <<60>>
    [] c = "="  -> <<61>>  [] c = ">"  -> <<62>>  [] c = "?"  -> <<63>>
    [] c = "@"  -> <<64>>  [] c = "["  -> <<91>>  [] c = "\\" -> <<92>>
    [] c = "]"  -> <<93>>  [] c = "^"  -> <<94>>  [] c = "{"  -> <<123>>
    [] c = "|"  -> <<124>> [] c = "}"  -> <<125>>
    [] c = "¡"  -> <<194, 161>>  [] c = "¿"  -> <<194, 191>>
    [] c = "Á"  -> <<195, 129>>  [] c = "É"  -> <<195, 137>>
    [] c = "Í"  -> <<195, 141>>  [] c = "Ñ"  -> <<195, 145>>
    [] c = "Ó"  -> <<195, 147>>  [] c = "Ú"  -> <<195, 154>>
    [] c = "á"  -> <<195, 161>>  [] c = "é"  -> <<195, 169>>
    [] c = "í"  -> <<195, 173>>  [] c = "ñ"  -> <<195, 177>>
    [] c = "ó"  -> <<195, 179>>  [] c = "ú"  -> <<195, 186>>
    [] c = "ü"  -> <<195, 188>>

\* encodeURIComponent of one character: an unreserved character is kept,
\* any other is replaced by %XX for each byte of its UTF-8 encoding
EncodeChar(c) ==
  IF c \in Unreserved THEN <<c>>
  ELSE LET bytes == Utf8(c)
       IN  Flatten([i \in 1..Len(bytes) |-> PercentByte(bytes[i])])

encodeURIComponent(str) == Flatten([i \in 1..Len(str) |-> EncodeChar(str[i])])

\* str.replace("+", ""): a string pattern replaces the first occurrence only
replaceFirstPlus(str) ==
  IF \E i \in 1..Len(str) : str[i] = "+"
  THEN LET i == CHOOSE k \in 1..Len(str) :
                  str[k] = "+" /\ \A j \in 1..(k - 1) : str[j] # "+"
       IN  SubSeq(str, 1, i - 1) \o SubSeq(str, i + 1, Len(str))
  ELSE str

\* a piece of the popup: literal text of the template, or the text computed
\* from the descriptor property src
Tpl(s)        == [src |-> "template", tpl |-> s, chars |-> <<>>]
Data(src, cs) == [src |-> src, tpl |-> "", chars |-> cs]

\* the template literal of the popup, piece by piece
popupOf(m) ==
  << Tpl("\n        <div style=\"min-width:220px\">\n          <div style=\"font-weight:700\">"),
     Data("name", escapeHtml(orElse(m.name, Negocio))),
     Tpl("</div>\n          <div style=\"font-size:12px;color:#64748b\">"),
     Data("route", escapeHtml(orElse(m.route, <<>>))),
     Tpl("</div>\n          <div style=\"margin-top:8px;display:flex;gap:6px;flex-wrap:wrap\">\n            <a href=\"/listings?route="),
     Data("route", encodeURIComponent(orElse(m.route, <<>>))),
     Tpl("\"\n               style=\"font-size:12px;padding:6px 10px;border:1px solid #e2e8f0;border-radius:10px;text-decoration:none;\">\n               Ver lugares\n            </a>\n            ") >>
  \o (IF Truthy(m.maps_url)
      THEN << Tpl("<a href=\""),
              Data("maps_url", m.maps_url.s),
              Tpl("\" target=\"_blank\"\n               style=\"font-size:12px;padding:6px 10px;border:1px solid #e2e8f0;border-radius:10px;text-decoration:none;\">\n               Maps\n            </a>") >>
      ELSE <<>>)
  \o << Tpl("\n            ") >>
  \o (IF Truthy(m.phone_whatsapp)
      THEN << Tpl("<a href=\"https://wa.me/"),
              Data("phone_whatsapp", replaceFirstPlus(m.phone_whatsapp.s)),
              Tpl("\" target=\"_blank\"\n               style=\"font-size:12px;padding:6px 10px;border:1px solid #e2e8f0;border-radius:10px;text-decoration:none;\">\n               WhatsApp\n            </a>") >>
      ELSE <<>>)
  \o << Tpl("\n          </div>\n        </div>\n      ") >>

\* a plausible slip: only the latitude is tested
skippedLatOnly(m) == m.lat.t # "number"

\* typeof m.lat !== "number" || typeof m.lng !== "number"
skipped(m) == m.lat.t # "number" \/ m.lng.t # "number"

\* markers.forEach(...): the markers added to the map and the array bounds
RECURSIVE forEachMarker(_)
forEachMarker(ms) ==
  IF ms = <<>> THEN [placed |-> <<>>, bounds |-> <<>>]
  ELSE LET m    == Head(ms)
           rest == forEachMarker(Tail(ms))
       IN  IF skipped(m) THEN rest
           ELSE [placed |-> <<[lat |-> m.lat.n, lng |-> m.lng.n, popup |-> popupOf(m)]>>
                            \o rest.placed,
                 bounds |-> <<<<m.lat.n, m.lng.n>>>> \o rest.bounds]

PathFaults == {"none", "polyline", "getBounds", "invalid", "fitBounds"}

\* a plausible slip: the path block has no try/catch
pathBlockNoCatch(view, path, fault) ==
  IF path.isArray /\ Len(path.pts) >= 2
  THEN [polyline |-> IF fault = "polyline" THEN 0 ELSE 1,
        view     |-> IF fault = "none" THEN fitBounds(path.pts, FitPadding) ELSE view,
        fault    |-> fault,
        escaped  |-> fault \in {"polyline", "getBounds", "fitBounds"}]
  ELSE [polyline |-> 0, view |-> view, fault |-> "none", escaped |-> FALSE]

\* the path block: the polyline is added and the view fitted to its bounds;
\* fault names the call that throws (L.polyline, getBounds, fitBounds) or
\* "invalid" for bounds that are not valid; whatever is thrown is caught
pathBlock(view, path, fault) ==
  IF path.isArray /\ Len(path.pts) >= 2
  THEN [polyline |-> IF fault = "polyline" THEN 0 ELSE 1,
        view     |-> IF fault = "none" THEN fitBounds(path.pts, FitPadding) ELSE view,
        fault    |-> fault,
        escaped  |-> FALSE]
  ELSE [polyline |-> 0, view |-> view, fault |-> "none", escaped |-> FALSE]

\* a plausible slip: a single marker is fitted like several
markerViewFitsOne(view, b) ==
  IF Len(b) >= 1 THEN fitBounds(b, FitPadding) ELSE view

\* the two if statements after the forEach
markerView(view, b) ==
  LET fitted == IF Len(b) >= 2 THEN fitBounds(b, FitPadding) ELSE view
  IN  IF Len(b) = 1 THEN setView(b[1], CloseZoom) ELSE fitted

\* initPublicMap(opts); fault is what the mapping library does in the path block
InitPublicMap(o, fault) ==
  /\ pc = "ready"
  /\ opts' = [kind |-> "public", start |-> o.start, markers |-> o.markers, path |-> o.path]
  /\ LET startLat == withDefault(o.start.startLat, DefaultStartLat)
         startLng == withDefault(o.start.startLng, DefaultStartLng)
         zoom     == withDefault(o.start.zoom, DefaultZoom)
         view0    == setView(<<startLat, startLng>>, zoom)
         pb       == pathBlock(view0, o.path, fault)
         each     == forEachMarker(o.markers)
     IN  IF guard(mapEl, hasL)
         THEN /\ pc' = "noop"
              /\ UNCHANGED <<map, placed, bounds, polyline, pathFault, thrown>>
         ELSE IF mapThrows
         THEN /\ pc' = "threw"
              /\ thrown' = TRUE
              /\ UNCHANGED <<map, placed, bounds, polyline, pathFault>>
         ELSE IF pb.escaped
         THEN /\ pc' = "threw"
              /\ thrown' = TRUE
              /\ map' = [created |-> 1, view |-> pb.view, tileLayers |-> 1, handlers |-> {}]
              /\ polyline' = pb.polyline
              /\ pathFault' = pb.fault
              /\ UNCHANGED <<placed, bounds>>
         ELSE /\ pc' = "public"
              /\ map' = [created |-> 1, view |-> markerView(pb.view, each.bounds),
                         tileLayers |-> 1, handlers |-> {}]
              /\ polyline' = pb.polyline
              /\ pathFault' = pb.fault
              /\ placed' = each.placed
              /\ bounds' = each.bounds
              /\ UNCHANGED thrown
  /\ UNCHANGED <<mapEl, hasL, latInput, lngInput, marker, dragging>>
  /\ UNCHANGED <<pageVars, escVars>>

\* the marker descriptors tried
dFull ==
  [lat |-> Num(-10000000), lng |-> Num(-780000000),
   name |-> Text(<<"A", "&", "<">>), route |-> Text(<<"r", "'", ">">>),
   maps_url |-> Text(<<"u", "\"", ">">>), phone_whatsapp |-> Text(<<"+", "5", "9">>)]
dPlain ==
  [lat |-> Num(-20000000), lng |-> Num(-790000000),
   name |-> NoText, route |-> NoText,
   maps_url |-> NoText, phone_whatsapp |-> Text(<<"5", "+", "9">>)]
dEmpty ==
  [lat |-> Num(0), lng |-> Num(-800000000),
   name |-> Text(<<>>), route |-> Text(<<"a", " ", "?", "ñ", "=">>),
   maps_url |-> Text(<<>>), phone_whatsapp |-> Text(<<>>)]
dStringLat ==
  [lat |-> Str(-10000000), lng |-> Num(-780000000),
   name |-> Text(<<"S">>), route |-> NoText,
   maps_url |-> Text(<<"u">>), phone_whatsapp |-> NoText]
dNoLng ==
  [lat |-> Num(-10000000), lng |-> Undefined,
   name |-> Text(<<"L">>), route |-> NoText,
   maps_url |-> NoText, phone_whatsapp |-> Text(<<"5">>)]

Descriptors == {dFull, dPlain, dEmpty, dStringLat, dNoLng}

\* the i-th point of the demo route
PathPoint(i) == <<-10000000 - i * 1000000, -780000000 + i * 1000000>>

\* the path option: an array of 0..MaxPath points, or a value with a length
\* of 2 that is not an array
PathOptions ==
  {[isArray |-> TRUE, pts |-> [i \in 1..k |-> PathPoint(i)]] : k \in 0..MaxPath}
  \cup {[isArray |-> FALSE, pts |-> [i \in 1..2 |-> PathPoint(i)]]}

PublicOptions ==
  [start : StartOptions, markers : SeqsUpTo(Descriptors, MaxMarkers), path : PathOptions]

MapInit ==
  /\ mapEl \in BOOLEAN
  /\ hasL \in BOOLEAN
  /\ latInput \in {[exists |-> e, value |-> InitialInputValue] : e \in BOOLEAN}
  /\ lngInput \in {[exists |-> e, value |-> InitialInputValue] : e \in BOOLEAN}
  /\ pc = "ready"
  /\ opts = NoOpts
  /\ map = NoMap
  /\ marker = NoMarker
  /\ dragging = FALSE
  /\ placed = <<>>
  /\ bounds = <<>>
  /\ polyline = 0
  /\ pathFault = "none"
  /\ thrown = FALSE

\* the map widgets are not part of the run
MapIdle ==
  /\ mapEl = FALSE
  /\ hasL = FALSE
  /\ latInput = [exists |-> FALSE, value |-> InitialInputValue]
  /\ lngInput = [exists |-> FALSE, value |-> InitialInputValue]
  /\ pc = "ready"
  /\ opts = NoOpts
  /\ map = NoMap
  /\ marker = NoMarker
  /\ dragging = FALSE
  /\ placed = <<>>
  /\ bounds = <<>>
  /\ polyline = 0
  /\ pathFault = "none"
  /\ thrown = FALSE

\* the page calls CRMaps.initPickerMap or CRMaps.initPublicMap once
CallPicker == pc = "ready" /\ \E o \in StartOptions : InitPickerMap(o)
CallPublic == pc = "ready" /\ \E o \in PublicOptions, fault \in PathFaults : InitPublicMap(o, fault)
UserClick  == pc = "picker" /\ \E lat \in LatValues, lng \in LngValues : MapClick(lat, lng)
UserDrag   == pc = "picker" /\ \E lat \in LatValues, lng \in LngValues : DragMarker(lat, lng)

MapNext ==
  \/ CallPicker
  \/ CallPublic
  \/ UserClick
  \/ UserDrag
  \/ DragEnd

(***************************************************************************)
(* escapeHtml applied to a chosen string                                   *)
(***************************************************************************)
EscapeAlphabet == {"&", "<", ">", "\"", "'", "l", "t", ";"}

StartsWith(s, p) == Len(s) >= Len(p) /\ SubSeq(s, 1, Len(p)) = p

\* what an HTML parser reads back from text in which only these five
\* entities occur
RECURSIVE DecodeEntities(_)
DecodeEntities(s) ==
  IF s = <<>> THEN <<>>
  ELSE IF StartsWith(s, AMP)  THEN <<"&">>  \o DecodeEntities(SubSeq(s, Len(AMP) + 1, Len(s)))
  ELSE IF StartsWith(s, LT)   THEN <<"<">>  \o DecodeEntities(SubSeq(s, Len(LT) + 1, Len(s)))
  ELSE IF StartsWith(s, GT)   THEN <<">">>  \o DecodeEntities(SubSeq(s, Len(GT) + 1, Len(s)))
  ELSE IF StartsWith(s, QUOT) THEN <<"\"">> \o DecodeEntities(SubSeq(s, Len(QUOT) + 1, Len(s)))
  ELSE IF StartsWith(s, APOS) THEN <<"'">>  \o DecodeEntities(SubSeq(s, Len(APOS) + 1, Len(s)))
  ELSE <<Head(s)>> \o DecodeEntities(Tail(s))

ApplyEscape ==
  /\ escPc = "input"
  /\ escPc' = "escaped"
  /\ escOut' = escapeHtml(escIn)
  /\ UNCHANGED <<escIn, escDec>>
  /\ UNCHANGED <<pageVars, mapVars>>

ParseBack ==
  /\ escPc = "escaped"
  /\ escPc' = "decoded"
  /\ escDec' = DecodeEntities(escOut)
  /\ UNCHANGED <<escIn, escOut>>
  /\ UNCHANGED <<pageVars, mapVars>>

EscInit ==
  /\ escPc = "input"
  /\ escIn \in SeqsUpTo(EscapeAlphabet, MaxLen)
  /\ escOut = <<>>
  /\ escDec = <<>>

EscIdle ==
  /\ escPc = "input"
  /\ escIn = <<>>
  /\ escOut = <<>>
  /\ escDec = <<>>

EscNext == ApplyEscape \/ ParseBack

(***************************************************************************)
(* Specifications                                                          *)
(***************************************************************************)
PageSpecInit == PageInit /\ MapIdle /\ EscIdle
PageSpec     == PageSpecInit /\ [][PageNext]_vars

MapSpecInit  == PageIdle /\ MapInit /\ EscIdle
MapSpec      == MapSpecInit /\ [][MapNext]_vars

EscSpecInit  == PageIdle /\ MapIdle /\ EscInit
EscSpec      == EscSpecInit /\ [][EscNext]_vars


(***************************************************************************)
(* Helpers of the properties                                               *)
(***************************************************************************)
Entities == {AMP, LT, GT, QUOT, APOS}

\* no < > " ' in s, and every & of s starts one of the five entities
NoRawSpecial(s) ==
  \A i \in 1..Len(s) :
    /\ s[i] \notin {"<", ">", "\"", "'"}
    /\ s[i] = "&" => \E e \in Entities : SubSeq(s, i, i + Len(e) - 1) = e

\* the characters an entity adds to the length
Growth(c) ==
  CASE c = "&" -> 4 [] c = "<" -> 3 [] c = ">" -> 3 [] c = "\"" -> 5 [] c = "'" -> 5
    [] OTHER -> 0

RECURSIVE SumGrowth(_)
SumGrowth(s) == IF s = <<>> THEN 0 ELSE Growth(Head(s)) + SumGrowth(Tail(s))

IsDigit(c) == c \in {"0", "1", "2", "3", "4", "5", "6", "7", "8", "9"}
DigitValue(c) == CHOOSE d \in 0..9 : DigitChar(d) = c

RECURSIVE NatOf(_)
NatOf(ds) == IF ds = <<>> THEN 0 ELSE 10 * NatOf(SubSeq(ds, 1, Len(ds) - 1)) + DigitValue(ds[Len(ds)])

\* s is x * 10^-7 written with exactly 6 decimal digits: an optional minus
\* sign, digits, a point, six digits; the number written is a multiple of
\* 10^-6 no further than half of 10^-6 from |x| * 10^-7
IsSixDecimalsOf(s, x) ==
  LET neg    == Len(s) > 0 /\ s[1] = "-"
      body   == IF neg THEN Tail(s) ELSE s
      dot    == Len(body) - 6
      digits == SubSeq(body, 1, dot - 1) \o SubSeq(body, dot + 1, Len(body))
  IN  /\ neg <=> x < 0
      /\ dot >= 2
      /\ body[dot] = "."
      /\ \A i \in 1..Len(digits) : IsDigit(digits[i])
      /\ 10 * NatOf(digits) - 5 <= Abs(x)
      /\ Abs(x) <= 10 * NatOf(digits) + 5

\* the descriptors of the call with numeric latitude and longitude
IsNumeric(m)  == m.lat.t = "number" /\ m.lng.t = "number"
ValidIndices  == {i \in 1..Len(opts.markers) : IsNumeric(opts.markers[i])}
\* the position among the placed markers of the valid descriptor i
Rank(i)       == Cardinality({j \in ValidIndices : j <= i})

PublicDone == opts.kind = "public" /\ mapEl /\ hasL

\* the view the marker rule asks for with n >= 1 placed markers
IsMarkerView(v) ==
  IF Len(placed) = 1
  THEN v.op = "setView" /\ v.center = <<placed[1].lat, placed[1].lng>> /\ v.zoom = 14
  ELSE /\ v.op = "fitBounds"
       /\ v.pts = [j \in 1..Len(placed) |-> <<placed[j].lat, placed[j].lng>>]
       /\ v.padding = 30

\* the configured start view
IsStartView(v) ==
  /\ v.op = "setView"
  /\ v.center = <<IF opts.start.startLat.t = "undefined" THEN -18312000 ELSE opts.start.startLat.n,
                  IF opts.start.startLng.t = "undefined" THEN -781834000 ELSE opts.start.startLng.n>>
  /\ v.zoom = IF opts.start.zoom.t = "undefined" THEN 6 ELSE opts.start.zoom.n

\* the pieces of a popup computed from the descriptor property src
PiecesOf(popup, src) == SelectSeq(popup, LAMBDA seg : seg.src = src)

\* the piece that follows the template text t in a popup, <<>> if t is absent
After(popup, t) ==
  {popup[i + 1].chars : i \in {k \in 1..(Len(popup) - 1) : popup[k].tpl = t}}

StripLeadingPlus(s) == IF s # <<>> /\ Head(s) = "+" THEN Tail(s) ELSE s

AncestorsOrSelf(n) == 1..n

(***************************************************************************)
(* Properties                                                              *)
(***************************************************************************)

\* C1: once initPickerMap has built the picker (container and library
\* present, both inputs found), after initialization and after every map
\* click and marker drag end the map has exactly one marker and the two
\* inputs hold the marker's latitude and longitude with exactly 6 decimals.
C1_PickerInputsFollowMarker ==
  (pc = "picker" /\ latInput.exists /\ lngInput.exists /\ ~dragging) =>
    /\ marker.count = 1
    /\ IsSixDecimalsOf(latInput.value, marker.lat)
    /\ IsSixDecimalsOf(lngInput.value, marker.lng)

C1_Witness ==
  /\ pc = "picker" /\ ~dragging
  /\ marker.lat = 12345678 /\ marker.lng = -5
  /\ latInput.value = <<"1", ".", "2", "3", "4", "5", "6", "8">>
  /\ lngInput.value = <<"-", "0", ".", "0", "0", "0", "0", "0", "0">>

\* C2: when the container is missing or the mapping library is undefined,
\* initPickerMap and initPublicMap return without an error, create no map,
\* tile layer, marker or polyline, register no handler and leave the inputs
\* as they were.
C2_GuardIsNoop ==
  (pc # "ready" /\ (~mapEl \/ ~hasL)) =>
    /\ ~thrown
    /\ pc = "noop"
    /\ map = NoMap
    /\ marker = NoMarker
    /\ placed = <<>> /\ bounds = <<>> /\ polyline = 0
    /\ latInput.value = InitialInputValue
    /\ lngInput.value = InitialInputValue

C2_Witness ==
  /\ pc = "noop" /\ opts.kind = "picker"
  /\ mapEl /\ ~hasL
  /\ latInput.exists /\ lngInput.exists

\* C3 as claimed: in every popup, no text computed from a descriptor
\* property (name, route, maps_url, phone_whatsapp) contains a raw
\* & < > " or '.
C3_DescriptorTextEscaped ==
  \A j \in 1..Len(placed) :
    \A k \in 1..Len(placed[j].popup) :
      placed[j].popup[k].src # "template" => NoRawSpecial(placed[j].popup[k].chars)

\* C4: a descriptor without numeric latitude and longitude adds no marker and
\* no bounds entry and does not stop the loop: the markers and the bounds
\* entries are those of the descriptors with numeric coordinates, in order.
C4_InvalidDescriptorsSkipped ==
  (PublicDone /\ pc # "ready") =>
    /\ Len(placed) = Cardinality(ValidIndices)
    /\ Len(bounds) = Cardinality(ValidIndices)
    /\ \A i \in ValidIndices :
         /\ placed[Rank(i)].lat = opts.markers[i].lat.n
         /\ placed[Rank(i)].lng = opts.markers[i].lng.n
         /\ bounds[Rank(i)] = <<opts.markers[i].lat.n, opts.markers[i].lng.n>>

C4_Witness ==
  /\ pc = "public"
  /\ Len(opts.markers) = 3
  /\ ~IsNumeric(opts.markers[1]) /\ IsNumeric(opts.markers[2])
  /\ ~IsNumeric(opts.markers[3])
  /\ opts.markers[1] # opts.markers[3]
  /\ Len(placed) = 1 /\ Len(bounds) = 1

\* C5: with no path, the final view is the start view for no valid marker,
\* the marker at zoom 14 for one, and the fit of all marker positions with
\* padding 30 for two or more.
C5_FinalViewByMarkerCount ==
  (PublicDone /\ pc # "ready" /\ opts.path.isArray /\ opts.path.pts = <<>>) =>
    IF Len(placed) = 0 THEN IsStartView(map.view) ELSE IsMarkerView(map.view)

C5_Witness ==
  /\ pc = "public"
  /\ opts.path.isArray /\ opts.path.pts = <<>>
  /\ Len(opts.markers) = 3
  /\ Len(placed) = 1
  /\ map.view.zoom = 14

\* C6: the hide callback never runs before the 8000 ms have elapsed; a box
\* visible when the script loads is hidden by the script exactly once, by
\* the timer; for a box missing or hidden at load no timer is scheduled and
\* the script never changes the box, even if it is shown later.
C6_AutoHideOnce ==
  LET visibleAtLoad == loadBox.present /\ ~loadBox.hidden IN
  /\ hideRuns > 0 => clock >= loadAt + 8000
  /\ pagePc = "rendered" => ~timer.pending /\ hideRuns = 0 /\ scriptHides = 0
  /\ (pagePc = "loaded" /\ visibleAtLoad) =>
       \/ timer.pending /\ hideRuns = 0 /\ scriptHides = 0 /\ ~box.hidden
       \/ ~timer.pending /\ hideRuns = 1 /\ scriptHides = 1
  /\ (pagePc = "loaded" /\ ~visibleAtLoad) =>
       ~timer.pending /\ hideRuns = 0 /\ scriptHides = 0

C6_Witness ==
  /\ pagePc = "loaded"
  /\ hideRuns = 1 /\ scriptHides = 1
  /\ box.hidden
  /\ loadAt > 0

\* C7: the listener prevents the default action and stops the propagation of
\* a click exactly when the target or an ancestor has data-confirm and the
\* user declined; the dialog is shown only for such a click, with the text of
\* the nearest such element, or the default prompt when that text is empty.
C7_ConfirmListener ==
  ev.handled =>
    LET declaring == {n \in AncestorsOrSelf(ev.target) : confirmAttr[n].has}
        nearest   == CHOOSE n \in declaring : \A k \in declaring : k <= n
    IN  /\ ev.defaultPrevented <=> (declaring # {} /\ ev.answer = "no")
        /\ ev.propagationStopped <=> (declaring # {} /\ ev.answer = "no")
        /\ ev.dialogShown => declaring # {}
        /\ ev.dialogShown =>
             ev.dialogMsg = IF confirmAttr[nearest].text = "" THEN "¿Seguro?"
                            ELSE confirmAttr[nearest].text
        /\ declaring # {} => ev.answer # "none"

C7_Witness ==
  /\ ev.handled /\ ev.target = 3
  /\ ~confirmAttr[3].has /\ ~confirmAttr[2].has
  /\ confirmAttr[1] = [has |-> TRUE, text |-> ""]
  /\ ev.dialogShown /\ ev.dialogMsg = "¿Seguro?"
  /\ ev.answer = "no" /\ ev.defaultPrevented /\ ev.propagationStopped

\* C8: escapeHtml leaves no < > " ' and no & other than the start of one of
\* the five entities, lengthens the text by exactly what the entities of its
\* special characters add, and decoding the five entities gives the input
\* back.
C8_EscapeRoundTrip ==
  /\ escPc # "input" =>
       /\ NoRawSpecial(escOut)
       /\ Len(escOut) = Len(escIn) + SumGrowth(escIn)
       /\ DecodeEntities(escOut) = escIn
  /\ escPc = "decoded" => escDec = escIn

C8_Witness ==
  /\ escPc = "decoded"
  /\ escIn = <<"&", "l", "t", ";">>
  /\ escOut = <<"&", "a", "m", "p", ";", "l", "t", ";">>
  /\ escDec = escIn

\* C9 as claimed: the popup of a valid descriptor has the WhatsApp link
\* exactly when the descriptor has a phone, its target being the phone with
\* a leading "+" removed and nothing else changed, and has the Maps link
\* exactly when the descriptor has a maps_url.
C9_PopupLinks ==
  (PublicDone /\ pc = "public") =>
    \A i \in ValidIndices :
      LET m     == opts.markers[i]
          popup == placed[Rank(i)].popup
      IN  /\ Truthy(m.phone_whatsapp) <=> PiecesOf(popup, "phone_whatsapp") # <<>>
          /\ Truthy(m.phone_whatsapp) =>
               After(popup, "<a href=\"https://wa.me/") = {StripLeadingPlus(m.phone_whatsapp.s)}
          /\ Truthy(m.maps_url) <=> PiecesOf(popup, "maps_url") # <<>>

\* C10: the polyline is drawn and the view fitted to it only for a path of
\* at least 2 points; whatever the path block throws is caught, every valid
\* descriptor is still placed and the marker rule still sets the view; with
\* at least one valid marker the final view is the markers', not the path's.
C10_PathBlockContained ==
  (PublicDone /\ pc # "ready") =>
    /\ ~thrown /\ pc = "public"
    /\ polyline > 0 => (opts.path.isArray /\ Len(opts.path.pts) >= 2)
    /\ polyline <= 1
    /\ Len(placed) = Cardinality(ValidIndices)
    /\ Len(placed) >= 1 => IsMarkerView(map.view)
    /\ Len(placed) = 0 =>
         IF opts.path.isArray /\ Len(opts.path.pts) >= 2 /\ pathFault = "none"
         THEN map.view.op = "fitBounds" /\ map.view.pts = opts.path.pts /\ map.view.padding = 30
         ELSE IsStartView(map.view)

C10_Witness ==
  /\ pc = "public"
  /\ pathFault = "getBounds" /\ polyline = 1
  /\ Len(opts.markers) = 3 /\ Len(placed) = 2
  /\ map.view.op = "fitBounds" /\ map.view.pts = bounds

====
